---- MODULE Spec2Model ----
(***************************************************************************)
(* Model of dicomviewerSplashUI_CPP/convert_image.py: png_to_cpp_array     *)
(* reads a binary file and writes a C++ header holding its bytes, and the  *)
(* __main__ block runs it on fixed paths.  Text is a sequence of           *)
(* one-character strings; file contents are sequences (bytes 0..255 for    *)
(* the input, characters for the header).                                  *)
(***************************************************************************)
EXTENDS Integers, Sequences, FiniteSets, TLC

\* ------------------------------------------------------------------ bounds
MaxLen == 34
MaxRuns == 2

\* ------------------------------------------------------- program constants
\* i % 16 : elements per payload line
LineWidth == 16

\* "../CompanySplashScreen.png"
png_path == <<".",".","/","C","o","m","p","a","n","y","S","p","l","a","s","h","S","c","r","e","e","n",".","p","n","g">>
\* "splash_image_data.h"
header_path == <<"s","p","l","a","s","h","_","i","m","a","g","e","_","d","a","t","a",".","h">>
\* a second path a caller of the two-argument function passes: "img/0x41.png"
alt_path == <<"i","m","g","/","0","x","4","1",".","p","n","g">>

PngPaths == {png_path, alt_path}
Paths == PngPaths \cup {header_path}

\* ------------------------------------------------------------- conversions
HexChars == <<"0","1","2","3","4","5","6","7","8","9","a","b","c","d","e","f">>
DecChars == <<"0","1","2","3","4","5","6","7","8","9">>

\* one digit of format spec "x"
HexDigit(d) == HexChars[d + 1]

\* mutant of Hex2: the two digits in the wrong order
Hex2Swapped(byte) == <<HexDigit(byte % 16), HexDigit(byte \div 16)>>

\* f"{byte:02x}" for a byte 0..255: two lower-case hex digits, zero padded
Hex2(byte) == <<HexDigit(byte \div 16), HexDigit(byte % 16)>>

\* f"{n}" for a non-negative int: decimal digits, no padding
RECURSIVE DecStr(_)
DecStr(n) == IF n < 10 THEN <<DecChars[n + 1]>>
             ELSE DecStr(n \div 10) \o <<DecChars[(n % 10) + 1]>>

\* p.rfind("/") + 1: one past the index of the last "/", 0 when there is none
\* (as a 0-based index, so the first character kept is at 1-based i + 1)
RFindPlus1(p) ==
    LET S == {i \in 1..Len(p) : p[i] = "/"}
    IN  IF S = {} THEN 0 ELSE CHOOSE i \in S : \A j \in S : j <= i

\* os.path.basename (posixpath): i = p.rfind("/") + 1; return p[i:]
basename(p) == SubSeq(p, RFindPlus1(p) + 1, Len(p))

\* ---------------------------------------------------------- header pieces
\* mutant of HeaderOpen: no line break after the opening brace
HeaderOpenNoBreak(name, n) ==
       <<"#","i","f","n","d","e","f"," ","S","P","L","A","S","H","_","I","M","A","G","E","_","D","A","T","A","_","H","\n">>
    \o <<"#","d","e","f","i","n","e"," ","S","P","L","A","S","H","_","I","M","A","G","E","_","D","A","T","A","_","H","\n">>
    \o <<"\n">>
    \o <<"/","/"," ","A","u","t","o","-","g","e","n","e","r","a","t","e","d"," ","f","r","o","m"," ">> \o name \o <<"\n">>
    \o <<"/","/"," ","F","i","l","e"," ","s","i","z","e",":"," ">> \o DecStr(n) \o <<" ","b","y","t","e","s","\n">>
    \o <<"\n">>
    \o <<"c","o","n","s","t"," ","u","n","s","i","g","n","e","d"," ","c","h","a","r"," ","S","P","L","A","S","H","_","I","M","A","G","E","_","D","A","T","A","[","]"," ","="," ","{">>

\* lines 16-23: the f-string that opens header_content
HeaderOpen(name, n) ==
       <<"#","i","f","n","d","e","f"," ","S","P","L","A","S","H","_","I","M","A","G","E","_","D","A","T","A","_","H","\n">>
    \o <<"#","d","e","f","i","n","e"," ","S","P","L","A","S","H","_","I","M","A","G","E","_","D","A","T","A","_","H","\n">>
    \o <<"\n">>
    \o <<"/","/"," ","A","u","t","o","-","g","e","n","e","r","a","t","e","d"," ","f","r","o","m"," ">> \o name \o <<"\n">>
    \o <<"/","/"," ","F","i","l","e"," ","s","i","z","e",":"," ">> \o DecStr(n) \o <<" ","b","y","t","e","s","\n">>
    \o <<"\n">>
    \o <<"c","o","n","s","t"," ","u","n","s","i","g","n","e","d"," ","c","h","a","r"," ","S","P","L","A","S","H","_","I","M","A","G","E","_","D","A","T","A","[","]"," ","="," ","{","\n">>

\* mutant of LoopBody: the comma is a separator, left out after the last byte
LoopBodyNoLastComma(data, i) ==
       (IF i % LineWidth = 0 THEN <<"\n"," "," "," "," ">> ELSE <<>>)
    \o <<"0","x">> \o Hex2(data[i + 1])
    \o (IF i < Len(data) - 1 THEN <<",">> ELSE <<>>)
    \o (IF i < Len(data) - 1 /\ i % LineWidth # LineWidth - 1 THEN <<" ">> ELSE <<>>)

\* mutant of LoopBody: the line break comes after every 16th index, not
\* before every 16th element
LoopBodyWrapLate(data, i) ==
       (IF i % LineWidth = LineWidth - 1 THEN <<"\n"," "," "," "," ">> ELSE <<>>)
    \o <<"0","x">> \o Hex2(data[i + 1]) \o <<",">>
    \o (IF i < Len(data) - 1 /\ i % LineWidth # LineWidth - 2 THEN <<" ">> ELSE <<>>)

\* lines 27-31: what the iteration with index i (0-based) appends to
\* header_content
LoopBody(data, i) ==
       (IF i % LineWidth = 0 THEN <<"\n"," "," "," "," ">> ELSE <<>>)
    \o <<"0","x">> \o Hex2(data[i + 1]) \o <<",">>
    \o (IF i < Len(data) - 1 /\ i % LineWidth # LineWidth - 1 THEN <<" ">> ELSE <<>>)

\* line 26: for i, byte in enumerate(png_data): what iterations 0 .. n-1
\* append, in order
RECURSIVE Loop(_, _)
Loop(data, n) == IF n = 0 THEN <<>>
                 ELSE Loop(data, n - 1) \o LoopBody(data, n - 1)

\* mutant of HeaderClose: the size constant is one more than the length
HeaderCloseOffByOne(n) ==
       <<"\n">>
    \o <<"}",";","\n">>
    \o <<"\n">>
    \o <<"c","o","n","s","t"," ","u","n","s","i","g","n","e","d"," ","i","n","t"," ","S","P","L","A","S","H","_","I","M","A","G","E","_","S","I","Z","E"," ","="," ">> \o DecStr(n + 1) \o <<";","\n">>
    \o <<"\n">>
    \o <<"#","e","n","d","i","f"," ","/","/"," ","S","P","L","A","S","H","_","I","M","A","G","E","_","D","A","T","A","_","H","\n">>

\* lines 33-39: the f-string that closes header_content
HeaderClose(n) ==
       <<"\n">>
    \o <<"}",";","\n">>
    \o <<"\n">>
    \o <<"c","o","n","s","t"," ","u","n","s","i","g","n","e","d"," ","i","n","t"," ","S","P","L","A","S","H","_","I","M","A","G","E","_","S","I","Z","E"," ","="," ">> \o DecStr(n) \o <<";","\n">>
    \o <<"\n">>
    \o <<"#","e","n","d","i","f"," ","/","/"," ","S","P","L","A","S","H","_","I","M","A","G","E","_","D","A","T","A","_","H","\n">>

\* lines 16-39: header_content as built from the path and the bytes read
BuildHeaderContent(path, data) ==
    HeaderOpen(basename(path), Len(data)) \o Loop(data, Len(data))
    \o HeaderClose(Len(data))

\* ------------------------------------------------------------- file system
Absent == [kind |-> "absent", perm |-> FALSE, data |-> <<>>]
Dir == [kind |-> "dir", perm |-> TRUE, data |-> <<>>]
File(d, p) == [kind |-> "file", perm |-> p, data |-> d]

\* os.path.exists
Exists(f) == f.kind # "absent"
\* open(path, 'rb') succeeds
CanRead(f) == f.kind = "file" /\ f.perm
\* open(path, 'w') succeeds: a new file, or an existing writable file
CanOpenW(f) == f.kind = "absent" \/ (f.kind = "file" /\ f.perm)

\* ---------------------------------------------------------- bounded inputs
\* byte sequences base, base+step, ... (mod 256) of length n
Ramp(base, step, n) == [k \in 1..n |-> (base + (k - 1) * step) % 256]
Patterns == {<<0, 1>>, <<255, 0>>, <<10, 47>>}
SmallBytes == {0, 171}
Inputs == {Ramp(p[1], p[2], n) : p \in Patterns, n \in 0..MaxLen}
          \cup {<<a, b>> : a \in SmallBytes, b \in SmallBytes}
OldContents == {<<>>, <<"o","l","d">>}

InputFiles == {Absent, Dir, File(<<7>>, FALSE)} \cup {File(d, TRUE) : d \in Inputs}
OutputFiles == {Absent, Dir, File(<<"r","o">>, FALSE)} \cup {File(d, TRUE) : d \in OldContents}

\* ------------------------------------------------------------------- state
VARIABLES fs, pc, caller, png_file_path, output_header_path,
          png_data, header_content, result, stdout, exit_status,
          runs, fs0, wrote, last_ok, prev_ok

vars == <<fs, pc, caller, png_file_path, output_header_path,
          png_data, header_content, result, stdout, exit_status,
          runs, fs0, wrote, last_ok, prev_ok>>

locals == <<png_data, header_content>>
\* history: the two most recent successful conversions, each
\* <<path, input bytes, output file content left behind>>
hist == <<last_ok, prev_ok>>
args == <<caller, png_file_path, output_header_path>>

Init ==
    /\ \E p \in PngPaths, fin \in InputFiles, fout \in OutputFiles :
          fs = [q \in Paths |-> IF q = p THEN fin
                                ELSE IF q = header_path THEN fout ELSE Absent]
    /\ pc = "idle"
    /\ caller = "none"
    /\ png_file_path = <<>>
    /\ output_header_path = <<>>
    /\ png_data = <<>>
    /\ header_content = <<>>
    /\ result = "none"
    /\ stdout = <<>>
    /\ exit_status = -1
    /\ runs = 0
    /\ fs0 = fs
    /\ wrote = "none"
    /\ last_ok = <<>>
    /\ prev_ok = <<>>

\* the call of png_to_cpp_array(p, o) by process kind c; fs0 records the
\* file system as the call finds it
Call(c, p, o) ==
    /\ pc = "idle"
    /\ runs < MaxRuns
    /\ runs' = runs + 1
    /\ caller' = c
    /\ png_file_path' = p
    /\ output_header_path' = o
    /\ png_data' = <<>>
    /\ header_content' = <<>>
    /\ result' = "none"
    /\ stdout' = <<>>
    /\ exit_status' = -1
    /\ fs0' = fs
    /\ wrote' = "none"
    /\ pc' = "exists"
    /\ UNCHANGED <<fs, hist>>

\* lines 52-57: python convert_image.py
StartMain == Call("main", png_path, header_path)

\* the reusable two-argument form, called from an importing program
StartImport == \E p \in PngPaths : Call("import", p, header_path)

\* mutant of CheckExists: the return after the message is missing
CheckExistsFallThrough ==
    /\ pc = "exists"
    /\ IF ~Exists(fs[png_file_path])
       THEN stdout' = Append(stdout, "Error: PNG file not found")
       ELSE UNCHANGED stdout
    /\ pc' = "read"
    /\ UNCHANGED <<fs, args, locals, result, exit_status, runs, fs0, wrote, hist>>

\* lines 7-9
CheckExists ==
    /\ pc = "exists"
    /\ IF ~Exists(fs[png_file_path])
       THEN /\ stdout' = Append(stdout, "Error: PNG file not found")
            /\ result' = "False"
            /\ pc' = "returned"
       ELSE /\ pc' = "read"
            /\ UNCHANGED <<stdout, result>>
    /\ UNCHANGED <<fs, args, locals, exit_status, runs, fs0, wrote, hist>>

\* lines 12-13: open and read outside any try; a failure propagates
ReadInput ==
    /\ pc = "read"
    /\ IF CanRead(fs[png_file_path])
       THEN /\ png_data' = fs[png_file_path].data
            /\ pc' = "format"
       ELSE /\ pc' = "raised"
            /\ UNCHANGED png_data
    /\ UNCHANGED <<fs, args, header_content, result, stdout, exit_status,
                   runs, fs0, wrote, hist>>

\* lines 16-39
BuildHeader ==
    /\ pc = "format"
    /\ header_content' = BuildHeaderContent(png_file_path, png_data)
    /\ pc' = "write"
    /\ UNCHANGED <<fs, args, png_data, result, stdout, exit_status,
                   runs, fs0, wrote, hist>>

\* mutant of WriteOk: the file is opened for appending
WriteOkAppend ==
    /\ pc = "write"
    /\ CanOpenW(fs[output_header_path])
    /\ fs' = [fs EXCEPT ![output_header_path] =
                         File(fs[output_header_path].data \o header_content, TRUE)]
    /\ stdout' = stdout \o <<"Successfully generated", "Image size">>
    /\ result' = "True"
    /\ wrote' = "ok"
    /\ last_ok' = <<png_file_path, png_data, fs'[output_header_path].data>>
    /\ prev_ok' = last_ok
    /\ pc' = "returned"
    /\ UNCHANGED <<args, locals, exit_status, runs, fs0>>

\* lines 43-47: open(…, 'w') truncates, write and close succeed
WriteOk ==
    /\ pc = "write"
    /\ CanOpenW(fs[output_header_path])
    /\ fs' = [fs EXCEPT ![output_header_path] = File(header_content, TRUE)]
    /\ stdout' = stdout \o <<"Successfully generated", "Image size">>
    /\ result' = "True"
    /\ wrote' = "ok"
    /\ last_ok' = <<png_file_path, png_data, fs'[output_header_path].data>>
    /\ prev_ok' = last_ok
    /\ pc' = "returned"
    /\ UNCHANGED <<args, locals, exit_status, runs, fs0>>

\* mutant of WriteOpenFail: the handler does not catch OSError
WriteOpenFailPropagates ==
    /\ pc = "write"
    /\ ~CanOpenW(fs[output_header_path])
    /\ wrote' = "openfail"
    /\ pc' = "raised"
    /\ UNCHANGED <<fs, args, locals, result, stdout, exit_status, runs, fs0, hist>>

\* lines 43, 48-50: open(…, 'w') raises OSError; the file is untouched
WriteOpenFail ==
    /\ pc = "write"
    /\ ~CanOpenW(fs[output_header_path])
    /\ stdout' = Append(stdout, "Error writing header file")
    /\ result' = "False"
    /\ wrote' = "openfail"
    /\ pc' = "returned"
    /\ UNCHANGED <<fs, args, locals, exit_status, runs, fs0, hist>>

\* lines 44, 48-50: the file was opened (truncated) and write or close raises
\* OSError after k characters reached the file
WriteIOFail ==
    /\ pc = "write"
    /\ CanOpenW(fs[output_header_path])
    /\ \E k \in {0, Len(header_content) \div 2} :
          fs' = [fs EXCEPT ![output_header_path] =
                               File(SubSeq(header_content, 1, k), TRUE)]
    /\ stdout' = Append(stdout, "Error writing header file")
    /\ result' = "False"
    /\ wrote' = "iofail"
    /\ pc' = "returned"
    /\ UNCHANGED <<args, locals, exit_status, runs, fs0, hist>>

\* mutant of MainReturned: sys.exit(1) is missing
MainReturnedNoExit ==
    /\ pc = "returned"
    /\ caller = "main"
    /\ IF result = "True"
       THEN stdout' = Append(stdout, "Image conversion completed successfully!")
       ELSE stdout' = Append(stdout, "Image conversion failed!")
    /\ exit_status' = 0
    /\ pc' = "exited"
    /\ UNCHANGED <<fs, args, locals, result, runs, fs0, wrote, hist>>

\* lines 57-61
MainReturned ==
    /\ pc = "returned"
    /\ caller = "main"
    /\ IF result = "True"
       THEN /\ stdout' = Append(stdout, "Image conversion completed successfully!")
            /\ exit_status' = 0
       ELSE /\ stdout' = Append(stdout, "Image conversion failed!")
            /\ exit_status' = 1
    /\ pc' = "exited"
    /\ UNCHANGED <<fs, args, locals, result, runs, fs0, wrote, hist>>

\* line 57 when the call raises: the interpreter prints the traceback on
\* stderr and exits with status 1
MainRaised ==
    /\ pc = "raised"
    /\ caller = "main"
    /\ exit_status' = 1
    /\ pc' = "exited"
    /\ UNCHANGED <<fs, args, locals, result, stdout, runs, fs0, wrote, hist>>

\* the importing program takes the return value or the exception
ImportDone ==
    /\ pc \in {"returned", "raised"}
    /\ caller = "import"
    /\ pc' = "done"
    /\ UNCHANGED <<fs, args, locals, result, stdout, exit_status, runs, fs0,
                   wrote, hist>>

\* the process is over; the next one may start
ProcessEnd ==
    /\ pc \in {"exited", "done"}
    /\ runs < MaxRuns
    /\ pc' = "idle"
    /\ UNCHANGED <<fs, args, locals, result, stdout, exit_status, runs, fs0,
                   wrote, hist>>

png_to_cpp_array ==
    \/ CheckExists
    \/ ReadInput
    \/ BuildHeader
    \/ WriteOk
    \/ WriteOpenFail
    \/ WriteIOFail

Next ==
    \/ StartMain
    \/ StartImport
    \/ png_to_cpp_array
    \/ MainReturned
    \/ MainRaised
    \/ ImportDone
    \/ ProcessEnd

Spec == Init /\ [][Next]_vars

TypeOK ==
    /\ pc \in {"idle", "exists", "read", "format", "write", "returned",
               "raised", "exited", "done"}
    /\ result \in {"none", "True", "False"}
    /\ runs \in 0..MaxRuns


\* ------------------------------------------------- reading the header back
\* the text split at line breaks (a text ending in a line break has a last,
\* empty segment)
Segments(s) ==
    LET B == {0} \cup {i \in 1..Len(s) : s[i] = "\n"} \cup {Len(s) + 1}
        at(k) == CHOOSE b \in B : Cardinality({c \in B : c < b}) = k - 1
    IN  [k \in 1..(Cardinality(B) - 1) |-> SubSeq(s, at(k) + 1, at(k + 1) - 1)]

DeclLine == <<"c","o","n","s","t"," ","u","n","s","i","g","n","e","d"," ","c","h","a","r"," ","S","P","L","A","S","H","_","I","M","A","G","E","_","D","A","T","A","[","]"," ","="," ","{">>
CloseLine == <<"}",";">>
SizePrefix == <<"c","o","n","s","t"," ","u","n","s","i","g","n","e","d"," ","i","n","t"," ","S","P","L","A","S","H","_","I","M","A","G","E","_","S","I","Z","E"," ","="," ">>
CommentPrefix == <<"/","/"," ","F","i","l","e"," ","s","i","z","e",":"," ">>
CommentSuffix == <<" ","b","y","t","e","s">>

StartsWith(l, pre) == Len(l) >= Len(pre) /\ SubSeq(l, 1, Len(pre)) = pre
EndsWith(l, suf) == Len(l) >= Len(suf) /\ SubSeq(l, Len(l) - Len(suf) + 1, Len(l)) = suf

\* the array body: the lines after the declaration line up to the closing line
HasBody(text) ==
    LET L == Segments(text)
    IN  \E d \in 1..Len(L) : L[d] = DeclLine /\ \E c \in (d + 1)..Len(L) : L[c] = CloseLine
BodyLines(text) ==
    LET L == Segments(text)
        d == CHOOSE k \in 1..Len(L) : L[k] = DeclLine /\ \A j \in 1..(k - 1) : L[j] # DeclLine
        c == CHOOSE k \in (d + 1)..Len(L) :
                 L[k] = CloseLine /\ \A j \in (d + 1)..(k - 1) : L[j] # CloseLine
    IN  SubSeq(L, d + 1, c - 1)

\* a byte literal as the C++ compiler reads it: 0x and two hex digits
UpperHex == <<"0","1","2","3","4","5","6","7","8","9","A","B","C","D","E","F">>
IsHexCh(c) == \E d \in 1..16 : HexChars[d] = c \/ UpperHex[d] = c
HexVal(c) == (CHOOSE d \in 1..16 : HexChars[d] = c \/ UpperHex[d] = c) - 1
TokenAt(l, p) ==
    /\ p + 3 <= Len(l)
    /\ l[p] = "0"
    /\ l[p + 1] = "x"
    /\ IsHexCh(l[p + 2])
    /\ IsHexCh(l[p + 3])
TokPos(l) == {p \in 1..Len(l) : TokenAt(l, p)}
\* the bytes of a line's literals, in textual order
LineBytes(l) ==
    LET T == TokPos(l)
        at(k) == CHOOSE p \in T : Cardinality({q \in T : q < p}) = k - 1
    IN  [k \in 1..Cardinality(T) |-> 16 * HexVal(l[at(k) + 2]) + HexVal(l[at(k) + 3])]

RECURSIVE Flatten(_)
Flatten(ss) == IF ss = <<>> THEN <<>> ELSE Head(ss) \o Flatten(Tail(ss))

\* the bytes of the array body's literals, in textual order
BodyBytes(text) ==
    LET B == BodyLines(text)
    IN  Flatten([k \in 1..Len(B) |-> LineBytes(B[k])])

\* the lines of the body that hold at least one literal
PayloadLines(text) == SelectSeq(BodyLines(text), LAMBDA l : TokPos(l) # {})

CountOf(l, ch) == Cardinality({p \in 1..Len(l) : l[p] = ch})
RECURSIVE SumSeq(_)
SumSeq(ns) == IF ns = <<>> THEN 0 ELSE Head(ns) + SumSeq(Tail(ns))
BodyCommas(text) ==
    LET B == BodyLines(text)
    IN  SumSeq([k \in 1..Len(B) |-> CountOf(B[k], ",")])

\* a decimal numeral read back; -1 when it is not one
IsDec(ds) == ds # <<>> /\ \A k \in 1..Len(ds) : \E d \in 1..10 : DecChars[d] = ds[k]
RECURSIVE DecVal(_)
DecVal(ds) ==
    IF ~IsDec(ds) THEN -1
    ELSE IF Len(ds) = 1 THEN (CHOOSE d \in 1..10 : DecChars[d] = ds[1]) - 1
    ELSE 10 * DecVal(SubSeq(ds, 1, Len(ds) - 1))
         + (CHOOSE d \in 1..10 : DecChars[d] = ds[Len(ds)]) - 1

\* the number in the single line  <pre><number><suf>  of the text; -1 when
\* there is no such line or more than one
NumberIn(text, pre, suf) ==
    LET L == Segments(text)
        K == {k \in 1..Len(L) : StartsWith(L[k], pre) /\ EndsWith(L[k], suf)
                                 /\ Len(L[k]) > Len(pre) + Len(suf)}
    IN  IF Cardinality(K) # 1 THEN -1
        ELSE LET l == L[CHOOSE k \in K : TRUE]
             IN  DecVal(SubSeq(l, Len(pre) + 1, Len(l) - Len(suf)))

SizeConstant(text) == NumberIn(text, SizePrefix, <<";">>)
FileSizeComment(text) == NumberIn(text, CommentPrefix, CommentSuffix)

\* ------------------------------------------------------ what a call did
\* the call returned True: the header is in the output file
Succeeded == pc \in {"returned", "exited", "done"} /\ result = "True"
\* the bytes of the input file as the call found it
InputBytes == fs0[png_file_path].data
\* the text the call wrote
Written == fs[output_header_path].data
Ceil(n, d) == (n + d - 1) \div d

\* ------------------------------------------------------------------ claims

\* C1 (as stated): no comma follows the last byte literal of the array body,
\* and the body of an empty input holds no comma at all.
C1_NoTrailingComma ==
    Succeeded =>
        LET P == PayloadLines(Written)
        IN  IF InputBytes = <<>> THEN BodyCommas(Written) = 0
            ELSE /\ P # <<>>
                 /\ LET l == P[Len(P)]
                        p == CHOOSE q \in TokPos(l) : \A r \in TokPos(l) : r <= q
                    IN  ~(p + 4 <= Len(l) /\ l[p + 4] = ",")

\* C1 (amended): every byte literal of the array body, the last one
\* included, is directly followed by a comma; the body holds exactly one
\* comma per input byte (none for the empty input), and the last payload line
\* ends with that comma, no space after it.
C1_CommaAfterEveryLiteral ==
    Succeeded =>
        LET P == PayloadLines(Written)
        IN  /\ BodyCommas(Written) = Len(InputBytes)
            /\ \A k \in 1..Len(P) : \A p \in TokPos(P[k]) :
                   p + 4 <= Len(P[k]) /\ P[k][p + 4] = ","
            /\ InputBytes # <<>> => P # <<>> /\ P[Len(P)][Len(P[Len(P)])] = ","

C1_Witness ==
    /\ Succeeded
    /\ Len(InputBytes) = LineWidth + 1
    /\ EndsWith(PayloadLines(Written)[2], <<"0","x","1","0",",">>)

\* C2: on success the value of SPLASH_IMAGE_SIZE, the number of byte literals
\* in SPLASH_IMAGE_DATA and the number in the "// File size:" comment all
\* equal the length of the input.
C2_SizeEqualsLength ==
    Succeeded =>
        /\ SizeConstant(Written) = Len(InputBytes)
        /\ Len(BodyBytes(Written)) = Len(InputBytes)
        /\ FileSizeComment(Written) = Len(InputBytes)

C2_Witness ==
    /\ Succeeded
    /\ Len(InputBytes) = LineWidth + 1
    /\ SizeConstant(Written) = LineWidth + 1

\* C3: round trip: the byte literals of the array body, read in textual
\* order, are the input bytes, same length and same order.
C3_RoundTrip == Succeeded => BodyBytes(Written) = InputBytes

C3_Witness ==
    /\ Succeeded
    /\ InputBytes = <<10, 57, 104>>
    /\ BodyBytes(Written) = <<10, 57, 104>>

\* C9: the array body has ceil(N/16) payload lines; every one but the last
\* holds 16 literals and the last holds N - 16*(ceil(N/16) - 1).
C9_LineWrapping ==
    Succeeded =>
        LET P == PayloadLines(Written)
            N == Len(InputBytes)
        IN  /\ Len(P) = Ceil(N, 16)
            /\ \A k \in 1..(Len(P) - 1) : Cardinality(TokPos(P[k])) = 16
            /\ P # <<>> => Cardinality(TokPos(P[Len(P)])) = N - 16 * (Ceil(N, 16) - 1)

C9_Witness ==
    /\ Succeeded
    /\ Len(InputBytes) = 17
    /\ Len(PayloadLines(Written)) = 2
    /\ Cardinality(TokPos(PayloadLines(Written)[1])) = 16
    /\ Cardinality(TokPos(PayloadLines(Written)[2])) = 1

\* the lines of a text: its segments, without the empty one that follows a
\* final line break
Lines(text) ==
    LET S == Segments(text)
    IN  IF S[Len(S)] = <<>> THEN SubSeq(S, 1, Len(S) - 1) ELSE S

\* the documented lines before and after the payload
LinesBefore(name, n) ==
    << <<"#","i","f","n","d","e","f"," ","S","P","L","A","S","H","_","I","M","A","G","E","_","D","A","T","A","_","H">>,
       <<"#","d","e","f","i","n","e"," ","S","P","L","A","S","H","_","I","M","A","G","E","_","D","A","T","A","_","H">>,
       <<>>,
       <<"/","/"," ","A","u","t","o","-","g","e","n","e","r","a","t","e","d"," ","f","r","o","m"," ">> \o name,
       <<"/","/"," ","F","i","l","e"," ","s","i","z","e",":"," ">> \o DecStr(n) \o <<" ","b","y","t","e","s">>,
       <<>>,
       DeclLine >>
LinesAfter(n) ==
    << CloseLine,
       <<>>,
       SizePrefix \o DecStr(n) \o <<";">>,
       <<>>,
       <<"#","e","n","d","i","f"," ","/","/"," ","S","P","L","A","S","H","_","I","M","A","G","E","_","D","A","T","A","_","H">> >>

\* payload line k (1-based) of the bytes: four spaces, then the literals of
\* bytes 16(k-1)+1 .. min(16k, N), each with its comma, a space between two
RECURSIVE Joined(_, _, _)
Joined(data, from, to) ==
    IF from > to THEN <<>>
    ELSE <<"0","x">> \o Hex2(data[from]) \o <<",">>
         \o (IF from < to THEN <<" ">> ELSE <<>>) \o Joined(data, from + 1, to)
Min(a, b) == IF a < b THEN a ELSE b
PayloadOf(data) ==
    [k \in 1..Ceil(Len(data), 16) |->
        <<" "," "," "," ">> \o Joined(data, 16 * (k - 1) + 1, Min(16 * k, Len(data)))]

\* C8 (as stated): for a non-empty input the written text is, line for
\* line, the lines before the payload, at once the payload lines, and the
\* lines after it, nothing else.
C8_DocumentedFormat ==
    (Succeeded /\ InputBytes # <<>>) =>
        Lines(Written) = LinesBefore(basename(png_file_path), Len(InputBytes))
                         \o PayloadLines(Written)
                         \o LinesAfter(Len(InputBytes))

\* C8 (amended): the written text is, line for line, the lines before the
\* payload, one blank line, the payload lines (16 literals a line, each
\* literal followed by a comma), and the lines after the payload, the last
\* one ended by a line break.
C8_FormatWithBlankLine ==
    Succeeded =>
        /\ Lines(Written) = LinesBefore(basename(png_file_path), Len(InputBytes))
                            \o << <<>> >>
                            \o PayloadOf(InputBytes)
                            \o LinesAfter(Len(InputBytes))
        /\ Written[Len(Written)] = "\n"

C8_Witness ==
    /\ Succeeded
    /\ png_file_path = alt_path
    /\ InputBytes = <<171, 0>>
    /\ Lines(Written)[4] = <<"/","/"," ","A","u","t","o","-","g","e","n","e","r","a","t","e","d"," ","f","r","o","m"," ","0","x","4","1",".","p","n","g">>
    /\ Lines(Written)[7] = DeclLine
    /\ Lines(Written)[8] = <<>>
    /\ Lines(Written)[9] = <<" "," "," "," ","0","x","a","b",","," ","0","x","0","0",",">>
    /\ Lines(Written)[10] = CloseLine

\* C4: a call that finds no file at the input path returns False, raises
\* nothing and leaves the file system, the output path included, as it was.
C4_MissingInput ==
    (pc \notin {"idle", "exists"} /\ ~Exists(fs0[png_file_path])) =>
        /\ pc \in {"returned", "exited", "done"}
        /\ result = "False"
        /\ fs = fs0

C4_Witness ==
    /\ pc = "returned"
    /\ ~Exists(fs0[png_file_path])
    /\ result = "False"
    /\ fs0[output_header_path] = File(<<"o","l","d">>, TRUE)
    /\ fs[output_header_path] = File(<<"o","l","d">>, TRUE)
    /\ stdout = <<"Error: PNG file not found">>

\* C5: once the input is read, a failure to open or write the output makes
\* the call return False, never raise; it returns True only when the whole
\* header text is in the output file.
C5_WriteFailure ==
    /\ wrote \in {"openfail", "iofail"} =>
           pc \in {"returned", "exited", "done", "idle"} /\ result = "False"
    /\ Succeeded => wrote = "ok" /\ Written = header_content

C5_Witness ==
    /\ pc = "returned"
    /\ wrote = "openfail"
    /\ result = "False"
    /\ fs[output_header_path] = Dir

\* C6 (as stated): every call ends by returning a boolean, whatever the
\* file system holds; no call ends by raising.
C6_AlwaysReturnsBoolean == pc # "raised"

\* C7: the command-line process exits with status 0 exactly when the
\* conversion returned True and with a non-zero status when it returned
\* False, and its last output is the matching message.
C7_ExitStatus ==
    (pc = "exited" /\ caller = "main") =>
        /\ exit_status = 0 <=> result = "True"
        /\ result = "False" =>
               exit_status # 0 /\ stdout[Len(stdout)] = "Image conversion failed!"
        /\ result = "True" =>
               stdout[Len(stdout)] = "Image conversion completed successfully!"

C7_Witness ==
    /\ pc = "exited"
    /\ caller = "main"
    /\ wrote = "iofail"
    /\ result = "False"
    /\ exit_status = 1
    /\ stdout = <<"Error writing header file", "Image conversion failed!">>

\* C10: after a successful call the output file holds the header of the
\* input bytes and the input path's base name, whatever it held before; two
\* successful calls on the same path and the same bytes leave the same
\* content.
C10_OverwriteIdempotent ==
    /\ Succeeded =>
           Written = BuildHeaderContent(basename(png_file_path), InputBytes)
    /\ (prev_ok # <<>> /\ last_ok # <<>>
           /\ prev_ok[1] = last_ok[1] /\ prev_ok[2] = last_ok[2]) =>
           prev_ok[3] = last_ok[3]

C10_Witness ==
    /\ Succeeded
    /\ prev_ok # <<>>
    /\ prev_ok[1] = last_ok[1]
    /\ prev_ok[2] = last_ok[2]
    /\ Len(last_ok[2]) = 17
    /\ fs0[output_header_path].data = prev_ok[3]
    /\ Written = prev_ok[3]

====
